---- MODULE Spec2Model ----
(***************************************************************************)
(* Model of price_tracker.py: DatabaseManager (an SQLite file with the     *)
(* relations products, markets and prices) and Plotter.                    *)
(*                                                                         *)
(* Python str values are sequences of one-character strings, so that the   *)
(* comparisons SQLite makes (BINARY collation, byte by byte) and the       *)
(* parsing pandas makes (to_datetime) are computed, not assumed.           *)
(* Optional[...] values are None (the empty tuple) or Some(x) (a 1-tuple). *)
(***************************************************************************)
EXTENDS Integers, Sequences, FiniteSets

VARIABLES db, files, last

vars == <<db, files, last>>

\* ------------------------------------------------------------------ bounds
\* Largest value the AUTOINCREMENT counters of products and markets may take.
MaxSeq == 2
\* Largest number of rows of the relation prices.
MaxPrices == 2

\* ------------------------------------------------------------------ values
None == << >>
Some(x) == <<x>>

\* bool(x) of an Optional[str]: None and "" are both falsy.
Truthy(opt) == opt # None /\ Len(opt[1]) > 0

\* The code point of a character (the characters the inputs below use).
Code(c) ==
  CASE c = "-" -> 45 [] c = "/" -> 47
    [] c = "0" -> 48 [] c = "1" -> 49 [] c = "2" -> 50 [] c = "3" -> 51
    [] c = "4" -> 52 [] c = "5" -> 53 [] c = "6" -> 54 [] c = "7" -> 55
    [] c = "8" -> 56 [] c = "9" -> 57
    [] c = "B" -> 66 [] c = "K" -> 75 [] c = "L" -> 76 [] c = "M" -> 77
    [] c = "R" -> 82 [] c = "a" -> 97

\* Inputs of the store specification.
ProductNames == { <<"M">>, <<"R">> }
MarketNames == { << >>, <<"K">> }
Locations == { << >> }
Prices == { 1200 }
IsoDates == { <<"2","0","2","4","-","0","1","-","1","5">>,
              <<"2","0","2","4","-","0","2","-","0","1">> }
MarketArgs == {None} \cup { Some(m) : m \in MarketNames }

\* Inputs of the dates specification: one product, one market, date strings
\* in ISO form and in the month/day/year form.
Maize == <<"M">>
Kampala == <<"K">>
DatePrices == { 1200, 1500 }
Dates == IsoDates \cup { <<"0","1","/","0","2","/","2","0","2","4">>,
                         <<"1","2","/","0","1","/","2","0","2","3">> }

\* Inputs of the plot specification.
PlotDates == { <<"2","0","2","4","-","0","1","-","1","5">>,
               <<"1","2","/","0","1","/","2","0","2","3">> }
OutPaths == { None, Some(<<"t",".","p","n","g">>) }

\* Inputs of the registry specification (registration and listing only).
RegistryNames == { << >>, <<"B">>, <<"a">> }
RegistryLocations == { << >>, <<"L">> }

\* ------------------------------------------------------------------ results
Ok(v) == [status |-> "ok", exc |-> "", value |-> v]
Raise(e) == [status |-> "raise", exc |-> e, value |-> << >>]

UnknownProductOrMarket == "ValueError: Unknown product or market. Ensure they are added first."
NoDataToPlot == "ValueError: No data to plot."
TimeDataMismatch == "ValueError: time data doesn't match format"

\* ------------------------------------------------------------------ SQLite
\* memcmp order of two TEXT values (BINARY collation): s < t.
RECURSIVE TextLess(_, _)
TextLess(s, t) ==
  IF Len(t) = 0 THEN FALSE
  ELSE IF Len(s) = 0 THEN TRUE
  ELSE IF Code(Head(s)) # Code(Head(t)) THEN Code(Head(s)) < Code(Head(t))
  ELSE TextLess(Tail(s), Tail(t))

TextLeq(s, t) == s = t \/ TextLess(s, t)

\* The orderings of the rows S that ORDER BY column ASC may return (rows with
\* equal keys come in an order SQL leaves open).
OrderBy(S, column) ==
  LET n == Cardinality(S)
  IN { s \in [1..n -> S] :
         /\ \A i, j \in 1..n : i # j => s[i] # s[j]
         /\ \A i \in 1..n, j \in 1..n : i < j => TextLeq(s[i][column], s[j][column]) }

\* The state after __init__ on a fresh file: the three relations, empty.
EmptyDb ==
  [products |-> {}, markets |-> {}, prices |-> {},
   sqlite_sequence |-> [products |-> 0, markets |-> 0, prices |-> 0]]

\* add_product as INSERT OR REPLACE: the row of a known name is replaced by a
\* new row with a new identifier.
add_product_replace(d, name) ==
  LET rowid == d.sqlite_sequence.products + 1
  IN [d EXCEPT !.products = { r \in @ : r.name # name } \cup {[id |-> rowid, name |-> name]},
               !.sqlite_sequence.products = rowid]

\* INSERT OR IGNORE INTO products(name): the AUTOINCREMENT counter advances
\* even when the UNIQUE constraint makes the engine skip the row.
add_product(d, name) ==
  LET rowid == d.sqlite_sequence.products + 1
  IN IF \E r \in d.products : r.name = name
       THEN [d EXCEPT !.sqlite_sequence.products = rowid]
       ELSE [d EXCEPT !.products = @ \cup {[id |-> rowid, name |-> name]},
                      !.sqlite_sequence.products = rowid]

\* add_market as INSERT OR REPLACE (an upsert): the location is overwritten.
add_market_replace(d, name, location) ==
  LET rowid == d.sqlite_sequence.markets + 1
  IN [d EXCEPT !.markets = { r \in @ : r.name # name }
                             \cup {[id |-> rowid, name |-> name, location |-> location]},
               !.sqlite_sequence.markets = rowid]

add_market(d, name, location) ==
  LET rowid == d.sqlite_sequence.markets + 1
  IN IF \E r \in d.markets : r.name = name
       THEN [d EXCEPT !.sqlite_sequence.markets = rowid]
       ELSE [d EXCEPT !.markets = @ \cup {[id |-> rowid, name |-> name,
                                            location |-> location]},
                      !.sqlite_sequence.markets = rowid]

get_product_id(d, name) ==
  IF \E r \in d.products : r.name = name
    THEN Some((CHOOSE r \in d.products : r.name = name).id)
    ELSE None

get_market_id(d, name) ==
  IF \E r \in d.markets : r.name = name
    THEN Some((CHOOSE r \in d.markets : r.name = name).id)
    ELSE None

\* record_price testing "pid is None and mid is None": with one of them None
\* the INSERT runs and the NOT NULL constraint of the column rejects it.
record_price_and(d, product, market, price, date_iso) ==
  LET pid == get_product_id(d, product)
      mid == get_market_id(d, market)
      rowid == d.sqlite_sequence.prices + 1
  IN IF pid = None /\ mid = None
       THEN <<Raise(UnknownProductOrMarket), d>>
       ELSE IF pid = None \/ mid = None
         THEN <<Raise("IntegrityError: NOT NULL constraint failed"), d>>
         ELSE <<Ok(<< >>),
                [d EXCEPT !.prices = @ \cup {[id |-> rowid, product_id |-> pid[1],
                                              market_id |-> mid[1], price |-> price,
                                              date |-> date_iso]},
                          !.sqlite_sequence.prices = rowid]>>

\* record_price binding (mid, pid, ...) to (product_id, market_id, ...).
record_price_swapped(d, product, market, price, date_iso) ==
  LET pid == get_product_id(d, product)
      mid == get_market_id(d, market)
      rowid == d.sqlite_sequence.prices + 1
  IN IF pid = None \/ mid = None
       THEN <<Raise(UnknownProductOrMarket), d>>
       ELSE <<Ok(<< >>),
              [d EXCEPT !.prices = @ \cup {[id |-> rowid, product_id |-> mid[1],
                                            market_id |-> pid[1], price |-> price,
                                            date |-> date_iso]},
                        !.sqlite_sequence.prices = rowid]>>

\* record_price as INSERT OR IGNORE under a uniqueness rule on the observation.
record_price_dedup(d, product, market, price, date_iso) ==
  LET pid == get_product_id(d, product)
      mid == get_market_id(d, market)
      rowid == d.sqlite_sequence.prices + 1
  IN IF pid = None \/ mid = None
       THEN <<Raise(UnknownProductOrMarket), d>>
       ELSE IF \E r \in d.prices : /\ r.product_id = pid[1] /\ r.market_id = mid[1]
                                   /\ r.price = price /\ r.date = date_iso
         THEN <<Ok(<< >>), [d EXCEPT !.sqlite_sequence.prices = rowid]>>
         ELSE <<Ok(<< >>),
                [d EXCEPT !.prices = @ \cup {[id |-> rowid, product_id |-> pid[1],
                                              market_id |-> mid[1], price |-> price,
                                              date |-> date_iso]},
                          !.sqlite_sequence.prices = rowid]>>

\* record_price: the pair <<result, database afterwards>>.
record_price(d, product, market, price, date_iso) ==
  LET pid == get_product_id(d, product)
      mid == get_market_id(d, market)
      rowid == d.sqlite_sequence.prices + 1
  IN IF pid = None \/ mid = None
       THEN <<Raise(UnknownProductOrMarket), d>>
       ELSE <<Ok(<< >>),
              [d EXCEPT !.prices = @ \cup {[id |-> rowid, product_id |-> pid[1],
                                            market_id |-> mid[1], price |-> price,
                                            date |-> date_iso]},
                        !.sqlite_sequence.prices = rowid]>>

\* SELECT ... FROM prices pr JOIN products p JOIN markets m WHERE p.name = ?
\* [AND m.name = ?]: the filter on the market is added only when bool(market).
JoinedRows(d, product, market) ==
  { [id |-> t[1].id, product |-> t[2].name, market |-> t[3].name,
     price |-> t[1].price, date |-> t[1].date] :
      t \in { u \in d.prices \X d.products \X d.markets :
                /\ u[1].product_id = u[2].id
                /\ u[1].market_id = u[3].id
                /\ u[2].name = product
                /\ (Truthy(market) => u[3].name = market[1]) } }

\* ------------------------------------------------------------------ pandas
Digit(c) == Code(c) - 48

RECURSIVE Num(_, _, _)
Num(s, i, j) == IF i > j THEN 0 ELSE Num(s, i, j - 1) * 10 + Digit(s[j])

\* The format pandas guesses for a string: "%Y-%m-%d" or "%m/%d/%Y".
DateFormat(s) ==
  IF Len(s) = 10 /\ s[5] = "-" /\ s[8] = "-" THEN "%Y-%m-%d"
  ELSE IF Len(s) = 10 /\ s[3] = "/" /\ s[6] = "/" THEN "%m/%d/%Y"
  ELSE "unknown"

\* The calendar date <<year, month, day>> a string parses to.
ParseDate(s) ==
  IF DateFormat(s) = "%Y-%m-%d" THEN <<Num(s, 1, 4), Num(s, 6, 7), Num(s, 9, 10)>>
  ELSE <<Num(s, 7, 10), Num(s, 1, 2), Num(s, 4, 5)>>

\* pd.to_datetime of a column of strings: the outcomes it can have. The format
\* is guessed from the first element; when a later element does not match it,
\* pandas >= 2 raises and pandas < 2 parses each element on its own.
to_datetime(col) ==
  LET parsed == Ok([i \in 1..Len(col) |-> ParseDate(col[i])])
  IN IF \A i \in 1..Len(col) : DateFormat(col[i]) = DateFormat(col[1])
       THEN { parsed }
       ELSE { parsed, Raise(TimeDataMismatch) }

\* fetch_timeseries: the results it can return (a DataFrame is the sequence of
\* its rows), ORDER BY pr.date ASC comparing the column as TEXT.
fetch_timeseries(d, product, market) ==
  { IF dt.status = "ok"
      THEN Ok([i \in 1..Len(s) |->
                 [product |-> s[i].product, market |-> s[i].market,
                  price |-> s[i].price, date |-> dt.value[i]]])
      ELSE dt :
    <<s, dt>> \in UNION { {s} \X to_datetime([i \in 1..Len(s) |-> s[i].date]) :
                            s \in OrderBy(JoinedRows(d, product, market), "date") } }

\* list_products without ORDER BY name: the rows come in rowid order.
list_products_by_rowid(d) ==
  LET n == Cardinality(d.products)
      s == CHOOSE o \in [1..n -> d.products] :
             \A i, j \in 1..n : i < j => o[i].id < o[j].id
  IN [i \in 1..n |-> s[i].name]

\* SELECT name FROM products ORDER BY name.
list_products(d) ==
  LET s == CHOOSE o \in OrderBy(d.products, "name") : TRUE
  IN [i \in 1..Len(s) |-> s[i].name]

\* SELECT name, location FROM markets ORDER BY name.
list_markets(d) ==
  LET s == CHOOSE o \in OrderBy(d.markets, "name") : TRUE
  IN [i \in 1..Len(s) |-> <<s[i].name, s[i].location>>]

\* ------------------------------------------------------------------ Plotter
\* df[column]: a column of a frame.
Column(rows, column) == [i \in 1..Len(rows) |-> rows[i][column]]

\* df.groupby('market'): one line per market, keys ascending, rows in order.
GroupLines(rows) ==
  LET keys == { [market |-> rows[i].market] : i \in 1..Len(rows) }
      ks == CHOOSE o \in OrderBy(keys, "market") : TRUE
  IN [i \in 1..Len(ks) |->
        LET grp == SelectSeq(rows, LAMBDA r : r.market = ks[i].market)
        IN [label |-> ks[i].market, x |-> Column(grp, "date"), y |-> Column(grp, "price")]]

\* plot_product_trend without the test of df.empty.
plot_product_trend_unchecked(d, fs, product, market, out_path) ==
  { IF df.status = "raise" THEN [result |-> df, files |-> fs]
    ELSE [result |-> Ok(<< [title |-> << >>, xlabel |-> "Date", ylabel |-> "Price (UGX per kg)",
                             lines |-> << >>, shown |-> ~Truthy(out_path)] >>),
          files |-> IF Truthy(out_path) THEN fs \cup {out_path[1]} ELSE fs] :
    df \in fetch_timeseries(d, product, market) }

\* plot_product_trend: the outcomes [result, files] it can have, where files
\* is the set of paths written so far.
plot_product_trend(d, fs, product, market, out_path) ==
  LET Figure(rows) ==
        [title |-> <<"P","r","i","c","e"," ","T","r","e","n","d",":"," ">> \o product
                     \o (IF Truthy(market) THEN <<" ","(">> \o market[1] \o <<")">>
                         ELSE << >>),
         xlabel |-> "Date",
         ylabel |-> "Price (UGX per kg)",
         lines |-> IF Truthy(market)
                     THEN << [label |-> product \o <<" ","-"," ">> \o market[1],
                              x |-> Column(rows, "date"), y |-> Column(rows, "price")] >>
                     ELSE GroupLines(rows),
         shown |-> ~Truthy(out_path)]
  IN { IF df.status = "raise" THEN [result |-> df, files |-> fs]
       ELSE IF Len(df.value) = 0 THEN [result |-> Raise(NoDataToPlot), files |-> fs]
       ELSE [result |-> Ok(<<Figure(df.value)>>),
             files |-> IF Truthy(out_path) THEN fs \cup {out_path[1]} ELSE fs] :
       df \in fetch_timeseries(d, product, market) }

\* ------------------------------------------------------------------ actions
Init ==
  /\ db = EmptyDb
  /\ files = {}
  /\ last = [op |-> "init", args |-> << >>, result |-> Ok(<< >>)]

AddProduct(name) ==
  /\ db.sqlite_sequence.products < MaxSeq
  /\ db' = add_product(db, name)
  /\ last' = [op |-> "add_product", args |-> <<name>>, result |-> Ok(<< >>)]
  /\ UNCHANGED files

AddMarket(name, location) ==
  /\ db.sqlite_sequence.markets < MaxSeq
  /\ db' = add_market(db, name, location)
  /\ last' = [op |-> "add_market", args |-> <<name, location>>, result |-> Ok(<< >>)]
  /\ UNCHANGED files

GetProductId(name) ==
  /\ last' = [op |-> "get_product_id", args |-> <<name>>,
              result |-> Ok(get_product_id(db, name))]
  /\ UNCHANGED <<db, files>>

GetMarketId(name) ==
  /\ last' = [op |-> "get_market_id", args |-> <<name>>,
              result |-> Ok(get_market_id(db, name))]
  /\ UNCHANGED <<db, files>>

RecordPrice(product, market, price, date_iso) ==
  /\ LET out == record_price(db, product, market, price, date_iso)
     IN /\ out[2].sqlite_sequence.prices <= MaxPrices
        /\ db' = out[2]
        /\ last' = [op |-> "record_price", args |-> <<product, market, price, date_iso>>,
                    result |-> out[1]]
  /\ UNCHANGED files

FetchTimeseries(product, market) ==
  /\ \E r \in fetch_timeseries(db, product, market) :
       last' = [op |-> "fetch_timeseries", args |-> <<product, market>>, result |-> r]
  /\ UNCHANGED <<db, files>>

ListProducts ==
  /\ last' = [op |-> "list_products", args |-> << >>, result |-> Ok(list_products(db))]
  /\ UNCHANGED <<db, files>>

ListMarkets ==
  /\ last' = [op |-> "list_markets", args |-> << >>, result |-> Ok(list_markets(db))]
  /\ UNCHANGED <<db, files>>

PlotProductTrend(product, market, out_path) ==
  /\ \E o \in plot_product_trend(db, files, product, market, out_path) :
       /\ files' = o.files
       /\ last' = [op |-> "plot_product_trend", args |-> <<product, market, out_path>>,
                   result |-> o.result]
  /\ UNCHANGED db

Next ==
  \/ \E n \in ProductNames : AddProduct(n)
  \/ \E n \in MarketNames, l \in Locations : AddMarket(n, l)
  \/ \E p \in ProductNames, m \in MarketNames, x \in Prices, dt \in IsoDates :
       RecordPrice(p, m, x, dt)
  \/ \E p \in ProductNames, m \in MarketArgs : FetchTimeseries(p, m)

Spec == Init /\ [][Next]_vars

\* One product in one market, recorded on dates written in several forms.
NextDates ==
  \/ AddProduct(Maize)
  \/ AddMarket(Kampala, << >>)
  \/ \E x \in DatePrices, dt \in Dates : RecordPrice(Maize, Kampala, x, dt)
  \/ \E m \in {None, Some(Kampala)} : FetchTimeseries(Maize, m)

SpecDates == Init /\ [][NextDates]_vars

\* Recording and plotting.
NextPlot ==
  \/ AddProduct(Maize)
  \/ \E n \in MarketNames : AddMarket(n, << >>)
  \/ \E m \in MarketNames, x \in Prices, dt \in PlotDates : RecordPrice(Maize, m, x, dt)
  \/ \E p \in ProductNames, m \in MarketArgs, o \in OutPaths : PlotProductTrend(p, m, o)

SpecPlot == Init /\ [][NextPlot]_vars

\* Registration and listing alone, over names and locations of every shape.
NextRegistry ==
  \/ \E n \in RegistryNames : AddProduct(n)
  \/ \E n \in RegistryNames, l \in RegistryLocations : AddMarket(n, l)
  \/ \E n \in RegistryNames : GetProductId(n)
  \/ \E n \in RegistryNames : GetMarketId(n)
  \/ ListProducts
  \/ ListMarkets

SpecRegistry == Init /\ [][NextRegistry]_vars

\* ------------------------------------------------------------------ claims
IsProduct(d, name) == \E r \in d.products : r.name = name
IsMarket(d, name) == \E r \in d.markets : r.name = name
ProductNameOf(d, pr) == (CHOOSE r \in d.products : r.id = pr.product_id).name
MarketNameOf(d, pr) == (CHOOSE r \in d.markets : r.id = pr.market_id).name

\* a <= b for calendar dates <<year, month, day>>.
DateLeq(a, b) ==
  \/ a[1] < b[1]
  \/ a[1] = b[1] /\ a[2] < b[2]
  \/ a[1] = b[1] /\ a[2] = b[2] /\ a[3] <= b[3]

\* C1: a record_price call naming an unregistered product or an unregistered
\* market raises "Unknown product or market" and leaves the products, the
\* markets and the price observations exactly as they were.
C1_RecordPriceUnknownFails ==
  [][ (/\ last'.op = "record_price"
       /\ (~IsProduct(db, last'.args[1]) \/ ~IsMarket(db, last'.args[2])))
      => (last'.result = Raise(UnknownProductOrMarket) /\ db' = db) ]_vars

\* A failed record_price on a store that has observations, the market being
\* registered and the product not.
C1_Witness ==
  /\ last.op = "record_price"
  /\ last.result.status = "raise"
  /\ ~IsProduct(db, last.args[1])
  /\ IsMarket(db, last.args[2])
  /\ db.prices # {}

\* C2: every stored price observation references the identifier of a stored
\* product and the identifier of a stored market.
C2_ReferentialIntegrity ==
  \A pr \in db.prices :
    /\ \E r \in db.products : r.id = pr.product_id
    /\ \E r \in db.markets : r.id = pr.market_id

\* Two observations of different products, after identifiers were skipped.
C2_Witness ==
  /\ \E a, b \in db.prices : a.product_id # b.product_id
  /\ \E a \in db.prices : a.product_id # a.market_id

\* C3: add_product(name) leaves exactly one product row of that name; when
\* the name was registered already the call raises nothing and the relations
\* products, markets and prices are what they were (same identifier, no row
\* added or changed); product names are unique in every state.
C3_AddProductIdempotent ==
  [][ last'.op = "add_product" =>
        /\ last'.result.status = "ok"
        /\ Cardinality({ r \in db'.products : r.name = last'.args[1] }) = 1
        /\ db.products \subseteq db'.products
        /\ \A r \in db'.products \ db.products : r.name = last'.args[1]
        /\ IsProduct(db, last'.args[1]) => db'.products = db.products
        /\ db'.markets = db.markets /\ db'.prices = db.prices
        /\ \A r1, r2 \in db'.products : r1.name = r2.name => r1 = r2 ]_vars

\* The second add_product of the same name: one row, identifier 1, while the
\* AUTOINCREMENT counter shows two inserts were attempted.
C3_Witness ==
  /\ last.op = "add_product"
  /\ db.products = {[id |-> 1, name |-> last.args[1]]}
  /\ db.sqlite_sequence.products = 2

\* C4: the rows fetch_timeseries returns are non-decreasing by the calendar
\* date of their date column, whatever date strings were recorded.
C4_FetchSortedByDate ==
  (last.op = "fetch_timeseries" /\ last.result.status = "ok") =>
    \A i, j \in 1..Len(last.result.value) :
      i < j => DateLeq(last.result.value[i].date, last.result.value[j].date)

\* C5: fetch_timeseries(p, market) raises nothing and returns exactly the
\* stored observations of product p, and with a market present (the empty
\* string included) exactly those of p in that market.
C5_Matching(d, product, market) ==
  { pr \in d.prices :
      /\ ProductNameOf(d, pr) = product
      /\ market # None => MarketNameOf(d, pr) = market[1] }

C5_Row(d, pr) ==
  [product |-> ProductNameOf(d, pr), market |-> MarketNameOf(d, pr),
   price |-> pr.price, date |-> ParseDate(pr.date)]

C5_FetchExactlyMatching ==
  last.op = "fetch_timeseries" =>
    LET want == C5_Matching(db, last.args[1], last.args[2])
        got == last.result.value
    IN /\ last.result.status = "ok"
       /\ Len(got) = Cardinality(want)
       /\ \A pr \in want :
            Cardinality({ i \in 1..Len(got) : got[i] = C5_Row(db, pr) })
              = Cardinality({ q \in want : C5_Row(db, q) = C5_Row(db, pr) })

\* C6: a record_price call naming a registered product and a registered
\* market succeeds and adds exactly one observation (product, market, price,
\* date), also when an identical one is stored; nothing else changes; when the
\* product had no observation, fetch_timeseries(product) then yields that row
\* alone.
C6_RecordPriceAddsOneRow ==
  [][ (/\ last'.op = "record_price"
       /\ IsProduct(db, last'.args[1]) /\ IsMarket(db, last'.args[2]))
      => LET new == db'.prices \ db.prices
         IN /\ last'.result.status = "ok"
            /\ db'.products = db.products /\ db'.markets = db.markets
            /\ db.prices \subseteq db'.prices
            /\ Cardinality(db'.prices) = Cardinality(db.prices) + 1
            /\ \A pr \in new :
                 /\ ProductNameOf(db, pr) = last'.args[1]
                 /\ MarketNameOf(db, pr) = last'.args[2]
                 /\ pr.price = last'.args[3]
                 /\ pr.date = last'.args[4]
            /\ (\A pr \in db.prices : ProductNameOf(db, pr) # last'.args[1])
                 => fetch_timeseries(db', last'.args[1], None)
                      = { Ok(<< [product |-> last'.args[1], market |-> last'.args[2],
                                 price |-> last'.args[3],
                                 date |-> ParseDate(last'.args[4])] >>) } ]_vars

\* Two stored observations that differ in nothing but the rowid.
C6_Witness ==
  /\ last.op = "record_price" /\ last.result.status = "ok"
  /\ \E a, b \in db.prices :
       /\ a.id # b.id
       /\ a.product_id = b.product_id /\ a.market_id = b.market_id
       /\ a.price = b.price /\ a.date = b.date

\* C7: add_market(n, L2) on a store that has a market n with location L
\* raises nothing and leaves the relation markets as it was: one row named n,
\* its location L and its identifier unchanged; list_markets then returns
\* (n, L) once.
C7_AddMarketInsertOrIgnore ==
  [][ (last'.op = "add_market" /\ IsMarket(db, last'.args[1])) =>
        LET old == CHOOSE r \in db.markets : r.name = last'.args[1]
            lm == list_markets(db')
        IN /\ last'.result.status = "ok"
           /\ db'.markets = db.markets
           /\ { r \in db'.markets : r.name = old.name } = { old }
           /\ Cardinality({ i \in 1..Len(lm) : lm[i][1] = old.name }) = 1
           /\ \E i \in 1..Len(lm) : lm[i] = <<old.name, old.location>>
           /\ db'.products = db.products /\ db'.prices = db.prices ]_vars

\* The second add_market of a name, with a location other than the stored one.
C7_Witness ==
  /\ last.op = "add_market"
  /\ db.sqlite_sequence.markets = 2
  /\ \E r \in db.markets :
       /\ db.markets = {r}
       /\ r.id = 1 /\ r.name = last.args[1] /\ r.location # last.args[2]

C9_PlotNoData ==
  [][ (/\ last'.op = "plot_product_trend"
       /\ \A r \in fetch_timeseries(db, last'.args[1], last'.args[2]) :
            r.status = "ok" /\ Len(r.value) = 0)
      => (/\ last'.result = Raise(NoDataToPlot)
          /\ files' = files
          /\ db' = db) ]_vars

\* A failed plot with an output path given, on a store that has observations
\* of another market, no file having been written.
C9_Witness ==
  /\ last.op = "plot_product_trend"
  /\ last.result = Raise(NoDataToPlot)
  /\ Truthy(last.args[3])
  /\ db.prices # {}
  /\ IsProduct(db, last.args[1])
  /\ files = {}

\* C10: every stored product and every stored market has a non-empty name.
C10_NamesNonEmpty ==
  /\ \A r \in db.products : Len(r.name) > 0
  /\ \A r \in db.markets : Len(r.name) > 0
====
